---- MODULE Spec2Model ----
(***************************************************************************)
(* A model of libafl_qemu's emulator binding (libafl_qemu/src/emu.rs):     *)
(* the process-wide Emulator singleton, guest/host address translation,    *)
(* register access, guest mappings, the memory-map iterator, the code and  *)
(* memory-read hooks, the scripting binding's hook table and the           *)
(* debugger-command table.  The native engine (QEMU) is the environment:   *)
(* every value it returns is drawn from a small set.                       *)
(*                                                                         *)
(* Machine words are scaled down: usize/u64 have UsizeBits bits, and the   *)
(* narrow GuestAddr (u32 on 32-bit targets) has half as many.              *)
(***************************************************************************)
EXTENDS Integers, Sequences, FiniteSets, TLC

\* ------------------------------------------------------------------ bounds
UsizeBits == 4
MaxArgs == 2
MaxNewCalls == 3
MaxReg == 2
MaxRegVal == 2
MaxIters == 2
MaxEntries == 3
MaxNextCalls == 5
MaxCmds == 5
MaxHooks == 3
MaxReadHooks == 2
MaxEventCalls == 3
MaxMaps == 2
MaxThreads == 2
MaxSources == 3
MaxFiles == 2
MaxTests == 2

\* ------------------------------------------------------------- arithmetic
RECURSIVE Pow2(_)
Pow2(n) == IF n = 0 THEN 1 ELSE 2 * Pow2(n - 1)

UsizeMod == Pow2(UsizeBits)
U64Max == UsizeMod - 1

\* GuestAddr is u64 on x86_64/aarch64 targets and u32 on the others.
GuestBits(wide) == IF wide THEN UsizeBits ELSE UsizeBits \div 2
GuestMod(wide) == Pow2(GuestBits(wide))
GuestAddrs(wide) == 0 .. (GuestMod(wide) - 1)

\* `x as GuestAddr`: truncation to the guest address width.
AsGuestAddr(wide, x) == x % GuestMod(wide)

RECURSIVE BitAnd(_, _)
BitAnd(x, y) ==
    IF x = 0 \/ y = 0 THEN 0
    ELSE (IF x % 2 = 1 /\ y % 2 = 1 THEN 1 ELSE 0) + 2 * BitAnd(x \div 2, y \div 2)

BitOr(x, y) == x + y - BitAnd(x, y)

\* ---------------------------------------------------------------- results
\* Result<T, String>: Ok(v) or Err(message, operand formatted into it).
Ok(v) == [ok |-> TRUE, val |-> v, err |-> "", errArg |-> 0]
Err(msg, arg) == [ok |-> FALSE, val |-> 0, err |-> msg, errArg |-> arg]
Unit == 0

VARIABLES
    wideGuest,                \* cfg(cpu_target): GuestAddr is u64 (TRUE) or u32
    overflowChecks,           \* the build panics on arithmetic overflow (debug)
    EMULATOR_IS_INITIALIZED,  \* static mut EMULATOR_IS_INITIALIZED
    guest_base,               \* the native static guest_base
    initCalls,                \* calls of qemu_user_init so far
    handles,                  \* handles returned by Emulator::new so far
    newCalls,                 \* calls of Emulator::new so far
    lastCall,                 \* the last Emulator call and what it returned
    guestMaps,                \* the GuestMaps iterators made by mappings()
    freeLog,                  \* per iterator, the arguments of its free_self_maps calls
    GDB_COMMANDS,             \* static mut GDB_COMMANDS: Vec<FatPtr>, its elements
    gdbCap,                   \* the capacity of GDB_COMMANDS' buffer
    gdbBuf,                   \* the allocation holding GDB_COMMANDS' buffer (0: none)
    nativeGdbCmds,            \* the (callback, data) pairs the native layer holds
    lastGdb,                  \* the last native invocation of a debugger command
    lastMem,                  \* the last mapping call and what it returned
    lastPerms,                \* the last MmapPerms value queried and its predicates
    nativeHooks,              \* the native table of address-keyed code hooks
    PY_GENERIC_HOOKS,         \* pybind's static mut PY_GENERIC_HOOKS
    lastHook,                 \* the last set_hook / remove_hook call
    hookOwner,                \* per native hook, the object its set_hook call passed
    lastHit,                  \* the last code hook the guest reached
    userReadHooks,            \* the arguments of each add_read_hooks call
    readHooks,                \* the read hooks as the native layer registered them
    translated,               \* per site: the hooks registered when it was translated
    instr,                    \* the instrumentation the native layer emitted
    lastRead,                 \* the last guest read and the callbacks it invoked
    libafl_on_thread_hook,    \* the native static libafl_on_thread_hook
    libafl_pre_syscall_hook,  \* the native static libafl_pre_syscall_hook
    libafl_post_syscall_hook, \* the native static libafl_post_syscall_hook
    PY_SYSCALL_HOOK,          \* pybind's static mut PY_SYSCALL_HOOK
    eventLog,                 \* the set_*_hook calls made so far, in order
    hostMem,                  \* the bytes of the host's memory, by host address
    regions,                  \* the guest mappings the native layer holds
    unmappedSizes,            \* the sizes of the mappings unmapped so far
    mapCount,                 \* the mappings target_mmap has made so far
    lastWrite,                \* the most recent write_mem and how it ended, while its mapping lives
    lastReadMem,              \* the read_mem calls' last result since memory changed
    newPc,                    \* per thread, where its call of Emulator::new stands
    newArgs,                  \* per thread, the number of args of its call
    cgSources,                \* combine_and_or_generate's argument sources
    cgNumtests,               \* combine_and_or_generate's argument numtests
    cgSeed,                   \* the state of the random generator at the call
    cgOut                     \* what the call of combine_and_or_generate returned

emuVars == <<wideGuest, overflowChecks, EMULATOR_IS_INITIALIZED, guest_base,
             initCalls, handles, newCalls, lastCall>>

mapsVars == <<guestMaps, freeLog>>
gdbVars == <<GDB_COMMANDS, gdbCap, gdbBuf, nativeGdbCmds, lastGdb>>

memVars == <<lastMem, lastPerms>>
hookVars == <<nativeHooks, PY_GENERIC_HOOKS, lastHook, hookOwner, lastHit>>
readVars == <<userReadHooks, readHooks, translated, instr, lastRead>>

eventVars == <<libafl_on_thread_hook, libafl_pre_syscall_hook,
               libafl_post_syscall_hook, PY_SYSCALL_HOOK, eventLog>>

ramVars == <<hostMem, regions, unmappedSizes, mapCount, lastWrite, lastReadMem>>

raceVars == <<newPc, newArgs>>
combineVars == <<cgSources, cgNumtests, cgSeed, cgOut>>

vars == <<emuVars, mapsVars, gdbVars, memVars, hookVars, readVars, eventVars, ramVars,
          raceVars, combineVars>>

NoCall == [op |-> "none", arg |-> 0, native |-> 0, stored |-> 0, res |-> Ok(Unit)]
Call(op, arg, native, stored, res) ==
    [op |-> op, arg |-> arg, native |-> native, stored |-> stored, res |-> res]

\* The bases the native engine may choose for the guest address space.
Bases == {0, 1, UsizeMod \div 2, UsizeMod - 2}

\* ------------------------------------------------------- Emulator::new
\* assert!(!args.is_empty())
ArgsAssertFails_Never(nargs) == FALSE
ArgsAssertFails(nargs) == nargs = 0

\* The two assertions at the head of Emulator::new: a panic when an instance
\* exists already or when args is empty.
NewPanics_NoFlagCheck(initialized, nargs) == nargs = 0
NewPanics(initialized, nargs) == initialized \/ ArgsAssertFails(nargs)

\* Emulator::new(args, env): panics, or calls qemu_user_init (which fixes
\* guest_base), sets the flag and returns a handle.  A panic unwinds: the
\* call returns no handle and the process may go on (the binding turns it
\* into an exception).
EmulatorNew ==
    /\ newCalls < MaxNewCalls
    /\ \E nargs \in 0 .. MaxArgs :
         /\ newCalls' = newCalls + 1
         /\ IF NewPanics(EMULATOR_IS_INITIALIZED, nargs)
            THEN /\ lastCall' = Call("new", nargs, 0, 0, Err("panic", nargs))
                 /\ UNCHANGED <<EMULATOR_IS_INITIALIZED, guest_base, initCalls, handles>>
            ELSE /\ \E b \in Bases : guest_base' = b
                 /\ initCalls' = initCalls + 1
                 /\ EMULATOR_IS_INITIALIZED' = TRUE
                 /\ handles' = handles + 1
                 /\ lastCall' = Call("new", nargs, 1, 0, Ok(Unit))
    /\ UNCHANGED <<wideGuest, overflowChecks>>
    /\ UNCHANGED <<mapsVars, gdbVars, memVars, hookVars, readVars, eventVars, ramVars, raceVars, combineVars>>

\* ------------------------------------------------------------ g2h / h2g
\* A guest address is valid when base + addr is an address of the host.
ValidGuestAddr(wide, base, a) == a \in GuestAddrs(wide) /\ a + base < UsizeMod

\* g2h: (addr as usize + guest_base) as *mut T.  -1 stands for the overflow
\* panic of a build with overflow checks; other builds wrap.
g2h(checks, base, addr) ==
    IF addr + base >= UsizeMod /\ checks THEN -1 ELSE (addr + base) % UsizeMod

\* h2g: (addr as usize - guest_base) as GuestAddr.
h2g_AddsBase(checks, wide, base, ptr) == AsGuestAddr(wide, (ptr + base) % UsizeMod)
h2g(checks, wide, base, ptr) ==
    IF ptr - base < 0 /\ checks THEN -1
    ELSE AsGuestAddr(wide, (ptr - base + UsizeMod) % UsizeMod)

\* A caller translating a guest address to the host and back.
Translate ==
    /\ handles >= 1
    /\ \E a \in GuestAddrs(wideGuest) :
         LET p == g2h(overflowChecks, guest_base, a)
             back == IF p = -1 THEN -1 ELSE h2g(overflowChecks, wideGuest, guest_base, p)
         IN lastCall' = Call("g2h_h2g", a, p, 0,
                             IF back = -1 THEN Err("panic", a) ELSE Ok(back))
    /\ UNCHANGED <<wideGuest, overflowChecks, EMULATOR_IS_INITIALIZED, guest_base,
                   initCalls, handles, newCalls>>
    /\ UNCHANGED <<mapsVars, gdbVars, memVars, hookVars, readVars, eventVars, ramVars, raceVars, combineVars>>

\* ------------------------------------------------- write_reg / read_reg
\* What libafl_qemu_write_reg / libafl_qemu_read_reg may return.
NativeRets == {-1, 0, 1, 2}

RegResult_NegativeFails(which, reg, success, val) ==
    IF success < 0
    THEN Err(IF which = "write" THEN "Failed to write to register" ELSE "Failed to read register", reg)
    ELSE Ok(val)
RegResult(which, reg, success, val) ==
    IF success = 0
    THEN Err(IF which = "write" THEN "Failed to write to register" ELSE "Failed to read register", reg)
    ELSE Ok(val)

WriteReg ==
    /\ handles >= 1
    /\ \E reg \in 0 .. MaxReg, val \in 0 .. MaxRegVal, success \in NativeRets :
         lastCall' = Call("write_reg", reg, success, val, RegResult("write", reg, success, Unit))
    /\ UNCHANGED <<wideGuest, overflowChecks, EMULATOR_IS_INITIALIZED, guest_base,
                   initCalls, handles, newCalls>>
    /\ UNCHANGED <<mapsVars, gdbVars, memVars, hookVars, readVars, eventVars, ramVars, raceVars, combineVars>>

\* read_reg: val starts as T::zero(); the native call may store into it.
ReadReg ==
    /\ handles >= 1
    /\ \E reg \in 0 .. MaxReg, success \in NativeRets, wrote \in BOOLEAN, v \in 0 .. MaxRegVal :
         LET val == IF wrote THEN v ELSE 0
         IN lastCall' = Call("read_reg", reg, success, val, RegResult("read", reg, success, val))
    /\ UNCHANGED <<wideGuest, overflowChecks, EMULATOR_IS_INITIALIZED, guest_base,
                   initCalls, handles, newCalls>>
    /\ UNCHANGED <<mapsVars, gdbVars, memVars, hookVars, readVars, eventVars, ramVars, raceVars, combineVars>>

\* ------------------------------------------------------------ GuestMaps
\* A native cursor into snapshot `snap`, at its entry `pos`; NULL ends a list.
NULL == [snap |-> 0, pos |-> 0]
Cursor(snap, pos) == [snap |-> snap, pos |-> pos]

\* read_self_maps(): the head of a fresh snapshot of len entries (an empty
\* list is the null pointer).
read_self_maps(snap, len) == IF len = 0 THEN NULL ELSE Cursor(snap, 1)

\* libafl_maps_next(map_info, ret): fills *ret from the entry at the cursor
\* and returns the cursor that follows it, null after the last entry.
libafl_maps_next(len, cur) == IF cur.pos < len THEN Cursor(cur.snap, cur.pos + 1) ELSE NULL

Unborn == [st |-> "unborn", len |-> 0, orig_c_iter |-> NULL, c_iter |-> NULL,
           nexts |-> 0, yielded |-> <<>>, last |-> "none", nextArgs |-> <<>>]

\* GuestMaps::new(), reached through Emulator::mappings().
GuestMapsNew(snap, len) ==
    LET maps == read_self_maps(snap, len)
    IN [st |-> "live", len |-> len, orig_c_iter |-> maps, c_iter |-> maps,
        nexts |-> 0, yielded |-> <<>>, last |-> "none", nextArgs |-> <<>>]

Mappings ==
    /\ handles >= 1
    /\ \E i \in 1 .. MaxIters, len \in 0 .. MaxEntries :
         /\ guestMaps[i].st = "unborn"
         /\ \A j \in 1 .. (i - 1) : guestMaps[j].st # "unborn"
         /\ guestMaps' = [guestMaps EXCEPT ![i] = GuestMapsNew(i, len)]
    /\ UNCHANGED freeLog
    /\ UNCHANGED <<emuVars, gdbVars, memVars, hookVars, readVars, eventVars, ramVars, raceVars, combineVars>>

\* Iterator::next for GuestMaps.
GuestMapsNext_NoNullCheck(m) ==
    LET c == libafl_maps_next(m.len, m.c_iter)
    IN IF c = NULL
       THEN [m EXCEPT !.c_iter = c, !.last = "None", !.nexts = @ + 1,
                      !.nextArgs = Append(@, m.c_iter)]
       ELSE [m EXCEPT !.c_iter = c, !.last = "Some", !.nexts = @ + 1,
                      !.yielded = Append(@, m.c_iter.pos),
                      !.nextArgs = Append(@, m.c_iter)]
GuestMapsNext(m) ==
    IF m.c_iter = NULL
    THEN [m EXCEPT !.last = "None", !.nexts = @ + 1]
    ELSE LET c == libafl_maps_next(m.len, m.c_iter)
         IN IF c = NULL
            THEN [m EXCEPT !.c_iter = c, !.last = "None", !.nexts = @ + 1,
                           !.nextArgs = Append(@, m.c_iter)]
            ELSE [m EXCEPT !.c_iter = c, !.last = "Some", !.nexts = @ + 1,
                           !.yielded = Append(@, m.c_iter.pos),
                           !.nextArgs = Append(@, m.c_iter)]

MapsNext ==
    \E i \in 1 .. MaxIters :
      /\ guestMaps[i].st = "live"
      /\ guestMaps[i].nexts < MaxNextCalls
      /\ guestMaps' = [guestMaps EXCEPT ![i] = GuestMapsNext(guestMaps[i])]
      /\ UNCHANGED freeLog
      /\ UNCHANGED <<emuVars, gdbVars, memVars, hookVars, readVars, eventVars, ramVars, raceVars, combineVars>>

\* Drop for GuestMaps: the pointers it hands to free_self_maps.
DropFrees_Cursor(m) == <<m.c_iter>>
DropFrees(m) == <<m.orig_c_iter>>

\* The iterator goes out of scope (or the binding's object is collected):
\* the language runs its Drop once.
MapsDrop ==
    \E i \in 1 .. MaxIters :
      /\ guestMaps[i].st = "live"
      /\ guestMaps' = [guestMaps EXCEPT ![i].st = "dropped"]
      /\ freeLog' = [freeLog EXCEPT ![i] = @ \o DropFrees(guestMaps[i])]
      /\ UNCHANGED <<emuVars, gdbVars, memVars, hookVars, readVars, eventVars, ramVars, raceVars, combineVars>>

InitMaps ==
    /\ guestMaps = [i \in 1 .. MaxIters |-> Unborn]
    /\ freeLog = [i \in 1 .. MaxIters |-> <<>>]

\* --------------------------------------------------------- GDB_COMMANDS
\* The smallest capacity a growing Vec of 16-byte elements allocates.
MinNonZeroCap == 4

Max(a, b) == IF a >= b THEN a ELSE b

\* Vec::push's growth when len = capacity: the capacity doubles, and is at
\* least MinNonZeroCap.
GrownCap(cap, len) == Max(MinNonZeroCap, Max(2 * cap, len + 1))

\* A pointer into a Vec's buffer: the allocation and the element's index.
ElemPtr(buf, idx) == [buf |-> buf, idx |-> idx]

\* Emulator::add_gdb_cmd: pushes the boxed closure, then registers gdb_cmd
\* with a pointer to the Vec's last element.  A push at full capacity
\* reallocates the buffer, and the allocator decides whether it moves.
\* GDB_COMMANDS.push(callback)
GdbPush_Front(cmds, c) == <<c>> \o cmds
GdbPush(cmds, c) == Append(cmds, c)

\* The native registry of debugger commands: one (callback, data) pair per
\* registration; closure is the box data pointed at when it was registered.
libafl_qemu_add_gdb_cmd(tbl, callback, data, c) ==
    Append(tbl, [callback |-> callback, data |-> data, closure |-> c])

AddGdbCmd ==
    /\ handles >= 1
    /\ Len(GDB_COMMANDS) < MaxCmds
    /\ \E moves \in BOOLEAN :
         LET c == Len(GDB_COMMANDS) + 1   \* the box of this call's closure
             full == Len(GDB_COMMANDS) = gdbCap
             moved == full /\ (moves \/ gdbCap = 0)
             buf == IF moved THEN gdbBuf + 1 ELSE gdbBuf
         IN /\ (~full => ~moves)
            /\ GDB_COMMANDS' = GdbPush(GDB_COMMANDS, c)
            /\ gdbCap' = IF full THEN GrownCap(gdbCap, Len(GDB_COMMANDS)) ELSE gdbCap
            /\ gdbBuf' = buf
            /\ nativeGdbCmds' = libafl_qemu_add_gdb_cmd(nativeGdbCmds, "gdb_cmd",
                   ElemPtr(buf, Len(GDB_COMMANDS) + 1), c)
    /\ UNCHANGED lastGdb
    /\ UNCHANGED <<emuVars, mapsVars, memVars, hookVars, readVars, eventVars, ramVars, raceVars, combineVars>>

\* Emulator::new_empty(): whether it panics, the calls of qemu_user_init it
\* makes and the flag after it.
new_empty_Validates(initialized) ==
    [panics |-> initialized, inits |-> 0, flag |-> initialized]
new_empty(initialized) == [panics |-> FALSE, inits |-> 0, flag |-> initialized]

\* What `&mut *(data as *mut Box<dyn FnMut>)` designates in gdb_cmd: the
\* element of the live buffer, or, for a pointer into a buffer that was
\* freed, anything (0: the process faults).
Deref(data) ==
    IF data.buf = gdbBuf /\ data.idx \in 1 .. Len(GDB_COMMANDS)
    THEN {GDB_COMMANDS[data.idx]}
    ELSE (1 .. Len(GDB_COMMANDS)) \cup {0}

\* The native debugger layer invokes a registered command: gdb_cmd runs the
\* closure its data pointer designates and reports accept (1) or decline (0).
GdbInvoke ==
    /\ \E k \in 1 .. Len(nativeGdbCmds), accept \in BOOLEAN :
         \E c \in Deref(nativeGdbCmds[k].data) :
            LET emu == new_empty(EMULATOR_IS_INITIALIZED)
            IN /\ EMULATOR_IS_INITIALIZED' = emu.flag
               /\ initCalls' = initCalls + emu.inits
               /\ lastGdb' = [cmd |-> k,
                              ran |-> IF emu.panics THEN 0 ELSE c,
                              ret |-> IF ~emu.panics /\ c # 0 /\ accept THEN 1 ELSE 0,
                              emu |-> IF emu.panics THEN "panic" ELSE "handle"]
    /\ UNCHANGED <<GDB_COMMANDS, gdbCap, gdbBuf, nativeGdbCmds>>
    /\ UNCHANGED <<wideGuest, overflowChecks, guest_base, handles, newCalls, lastCall>>
    /\ UNCHANGED <<mapsVars, memVars, hookVars, readVars, eventVars, ramVars, raceVars, combineVars>>

InitGdb ==
    /\ GDB_COMMANDS = <<>>
    /\ gdbCap = 0
    /\ gdbBuf = 0
    /\ nativeGdbCmds = <<>>
    /\ lastGdb = [cmd |-> 0, ran |-> 0, ret |-> 0, emu |-> "none"]


\* ------------------------------------------------------------ MmapPerms
PROT_READ == 1
PROT_WRITE == 2
PROT_EXEC == 4

MmapPerms == {"None", "Read", "Write", "Execute", "ReadWrite", "ReadExecute",
              "WriteExecute", "ReadWriteExecute"}

\* The enum's discriminants (#[repr(i32)]), which perms.into() yields.
PermsBits(p) ==
    CASE p = "None" -> 0
      [] p = "Read" -> PROT_READ
      [] p = "Write" -> PROT_WRITE
      [] p = "Execute" -> PROT_EXEC
      [] p = "ReadWrite" -> BitOr(PROT_READ, PROT_WRITE)
      [] p = "ReadExecute" -> BitOr(PROT_READ, PROT_EXEC)
      [] p = "WriteExecute" -> BitOr(PROT_WRITE, PROT_EXEC)
      [] p = "ReadWriteExecute" -> BitOr(BitOr(PROT_READ, PROT_WRITE), PROT_EXEC)

is_r(p) == p \in {"Read", "ReadWrite", "ReadExecute", "ReadWriteExecute"}

is_w_NoWriteExecute(p) == p \in {"Write", "ReadWrite", "ReadWriteExecute"}
is_w(p) == p \in {"Write", "ReadWrite", "WriteExecute", "ReadWriteExecute"}

is_x(p) == p \in {"Execute", "ReadExecute", "WriteExecute", "ReadWriteExecute"}

\* A caller classifying a permission value with the three predicates.
PermsQuery ==
    /\ \E p \in MmapPerms :
         lastPerms' = [perms |-> p, r |-> is_r(p), w |-> is_w(p), x |-> is_x(p)]
    /\ UNCHANGED lastMem
    /\ UNCHANGED <<emuVars, mapsVars, gdbVars, hookVars, readVars, eventVars, ramVars, raceVars, combineVars>>

\* ------------------------------------------------ map_private / map_fixed
MAP_PRIVATE == 2
MAP_FIXED == 16
MAP_ANONYMOUS == 32

\* target_mmap's failure value: (abi_long) -1, read back as a u64.
MmapFailed == U64Max

\* What target_mmap may return: its failure value, or the start of the new
\* mapping, which is the requested start under MAP_FIXED and an address of
\* the native layer's choosing otherwise.
target_mmap(wide, start, flags) ==
    {MmapFailed} \cup
    (IF BitAnd(flags, MAP_FIXED) # 0
     THEN {start} \ {GuestMod(wide) - 1}
     ELSE {1, GuestMod(wide) - 2})

\* Emulator::mmap on the value target_mmap returned: Err(()) (FALSE) or Ok(res).
mmap(res) == IF res = 0 THEN [ok |-> FALSE, val |-> 0] ELSE [ok |-> TRUE, val |-> res]

\* map_private and map_fixed: the error names the requested address, the
\* success value is converted to a GuestAddr.
MapResult(wide, addr, res) ==
    IF mmap(res).ok THEN Ok(AsGuestAddr(wide, mmap(res).val)) ELSE Err("Failed to map", addr)

\* A mapping call as lastMem keeps it: the requested address, the flags
\* handed to target_mmap, what target_mmap returned and the call's result.
MemCall(op, addr, flags, native, res) ==
    [op |-> op, addr |-> addr, flags |-> flags, native |-> native, res |-> res]

\* map_private(addr, size, perms).  size and perms go to target_mmap as they
\* are and decide nothing on this side of the call: what target_mmap returns
\* stands for every choice of them.
MapPrivate ==
    /\ handles >= 1
    /\ \E addr \in GuestAddrs(wideGuest) :
         LET flags == BitOr(MAP_PRIVATE, MAP_ANONYMOUS)
         IN \E res \in target_mmap(wideGuest, addr, flags) :
              lastMem' = MemCall("map_private", addr, flags, res,
                                 MapResult(wideGuest, addr, res))
    /\ UNCHANGED lastPerms
    /\ UNCHANGED <<emuVars, mapsVars, gdbVars, hookVars, readVars, eventVars, ramVars, raceVars, combineVars>>

\* map_fixed(addr, size, perms): map_private with MAP_FIXED added.
\* The call's result; what the new mapping does to guest memory is RamMapFixed.
MapFixed ==
    /\ handles >= 1
    /\ \E addr \in GuestAddrs(wideGuest) :
         LET flags == BitOr(BitOr(MAP_FIXED, MAP_PRIVATE), MAP_ANONYMOUS)
         IN \E res \in target_mmap(wideGuest, addr, flags) :
              lastMem' = MemCall("map_fixed", addr, flags, res,
                                 MapResult(wideGuest, addr, res))
    /\ UNCHANGED lastPerms
    /\ UNCHANGED <<emuVars, mapsVars, gdbVars, hookVars, readVars, eventVars, ramVars, raceVars, combineVars>>

\* What target_mprotect / target_munmap may return: 0, or a negative errno.
NativeStatus == {-1, 0, 1}

\* Emulator::mprotect on the value target_mprotect returned.
MprotectResult_Inverted(addr, res) ==
    IF res # 0 THEN Ok(Unit) ELSE Err("Failed to mprotect", addr)
MprotectResult(addr, res) ==
    IF res = 0 THEN Ok(Unit) ELSE Err("Failed to mprotect", addr)

\* Emulator::unmap on the value target_munmap returned.
UnmapResult(addr, res) ==
    IF res = 0 THEN Ok(Unit) ELSE Err("Failed to unmap", addr)

\* mprotect(addr, size, perms); size and perms go to target_mprotect as they are.
Mprotect ==
    /\ handles >= 1
    /\ \E addr \in GuestAddrs(wideGuest), res \in NativeStatus :
         lastMem' = MemCall("mprotect", addr, 0, res, MprotectResult(addr, res))
    /\ UNCHANGED lastPerms
    /\ UNCHANGED <<emuVars, mapsVars, gdbVars, hookVars, readVars, eventVars, ramVars, raceVars, combineVars>>

\* unmap(addr, size).
Unmap ==
    /\ handles >= 1
    /\ \E addr \in GuestAddrs(wideGuest), res \in NativeStatus :
         lastMem' = MemCall("unmap", addr, 0, res, UnmapResult(addr, res))
    /\ UNCHANGED lastPerms
    /\ UNCHANGED <<emuVars, mapsVars, gdbVars, hookVars, readVars, eventVars, ramVars, raceVars, combineVars>>

InitMem ==
    /\ lastMem = [op |-> "none", addr |-> 0, flags |-> 0, native |-> 0, res |-> Ok(Unit)]
    /\ lastPerms = [perms |-> "unset", r |-> FALSE, w |-> FALSE, x |-> FALSE]

\* ----------------------------------------------------- code hooks (by address)
HookAddrs == {1, 2}
PyObjects == {"f", "g"}

\* libafl_qemu_set_hook(addr, callback, data, invalidate_block): the native
\* table with the hook added.
libafl_qemu_set_hook(tbl, addr, callback, data) ==
    Append(tbl, [addr |-> addr, callback |-> callback, data |-> data])

\* libafl_qemu_remove_hooks_at(addr, invalidate_block): the native table
\* without the hooks at addr.  The call returns how many it removed.
libafl_qemu_remove_hooks_at(tbl, addr) == SelectSeq(tbl, LAMBDA h : h.addr # addr)

\* The commented-out libafl_qemu_remove_hook(num, invalidate_block): the
\* native table without its hook number num.
libafl_qemu_remove_hook(tbl, num) ==
    [i \in 1 .. (Len(tbl) - (IF num \in 1 .. Len(tbl) THEN 1 ELSE 0)) |->
        IF i < num THEN tbl[i] ELSE tbl[i + 1]]

\* Emulator::set_hook and Emulator::remove_hook, as they change the native table.
EmuSetHook(tbl, addr, callback, data) == libafl_qemu_set_hook(tbl, addr, callback, data)

EmuRemoveHook_ByNumber(tbl, addr) == libafl_qemu_remove_hook(tbl, addr)
EmuRemoveHook(tbl, addr) == libafl_qemu_remove_hooks_at(tbl, addr)

\* PY_GENERIC_HOOKS.retain(|(a, _)| *a != addr)
PyRetain_Inverted(tbl, addr) == SelectSeq(tbl, LAMBDA e : e.addr = addr)
PyRetain(tbl, addr) == SelectSeq(tbl, LAMBDA e : e.addr # addr)

\* The objects of the hooks that stay in the native table when the hooks at
\* addr leave it.
RECURSIVE OwnersLeft(_, _, _)
OwnersLeft(tbl, owners, addr) ==
    IF tbl = <<>> \/ owners = <<>> THEN <<>>
    ELSE (IF Head(tbl).addr = addr THEN <<>> ELSE <<Head(owners)>>)
         \o OwnersLeft(Tail(tbl), Tail(owners), addr)

\* py_generic_hook_wrapper(pc, idx): the object it calls, PY_GENERIC_HOOKS[idx].1
\* with idx counted from 0, or the panic of an index out of bounds.
py_generic_hook_wrapper(tbl, idx) ==
    IF idx + 1 \in 1 .. Len(tbl) THEN tbl[idx + 1].obj ELSE "panic"

\* pybind::Emulator::set_hook: the object goes to the end of the table and
\* its index (counted from 0) is the data of the native hook.
PySetHook ==
    /\ handles >= 1
    /\ Len(nativeHooks) < MaxHooks
    /\ \E addr \in HookAddrs, hook \in PyObjects :
         LET idx == Len(PY_GENERIC_HOOKS)
         IN /\ PY_GENERIC_HOOKS' = Append(PY_GENERIC_HOOKS, [addr |-> addr, obj |-> hook])
            /\ nativeHooks' = EmuSetHook(nativeHooks, addr, "py_generic_hook_wrapper", idx)
            /\ lastHook' = [op |-> "set_hook", addr |-> addr, ret |-> 0, repeat |-> FALSE]
            /\ hookOwner' = Append(hookOwner, hook)
    /\ UNCHANGED lastHit
    /\ UNCHANGED <<emuVars, mapsVars, gdbVars, memVars, readVars, eventVars, ramVars, raceVars, combineVars>>

\* pybind::Emulator::remove_hook.  repeat: the call before it was a
\* remove_hook of the same address.
PyRemoveHook ==
    /\ handles >= 1
    /\ \E addr \in HookAddrs :
         /\ PY_GENERIC_HOOKS' = PyRetain(PY_GENERIC_HOOKS, addr)
         /\ nativeHooks' = EmuRemoveHook(nativeHooks, addr)
         /\ lastHook' = [op |-> "remove_hook", addr |-> addr,
                         ret |-> Len(nativeHooks) - Len(nativeHooks'),
                         repeat |-> lastHook.op = "remove_hook" /\ lastHook.addr = addr]
         /\ hookOwner' = OwnersLeft(nativeHooks, hookOwner, addr)
    /\ UNCHANGED lastHit
    /\ UNCHANGED <<emuVars, mapsVars, gdbVars, memVars, readVars, eventVars, ramVars, raceVars, combineVars>>

\* The guest reaches the address of an installed hook and the native layer
\* calls the hook's callback with its data.
PyHookHit ==
    /\ handles >= 1
    /\ \E k \in 1 .. Len(nativeHooks) :
         lastHit' = [addr |-> nativeHooks[k].addr,
                     data |-> nativeHooks[k].data,
                     called |-> py_generic_hook_wrapper(PY_GENERIC_HOOKS, nativeHooks[k].data),
                     owner |-> IF k \in DOMAIN hookOwner THEN hookOwner[k] ELSE "none"]
    /\ UNCHANGED <<nativeHooks, PY_GENERIC_HOOKS, lastHook, hookOwner>>
    /\ UNCHANGED <<emuVars, mapsVars, gdbVars, memVars, readVars, eventVars, ramVars, raceVars, combineVars>>

InitHooks ==
    /\ nativeHooks = <<>>
    /\ PY_GENERIC_HOOKS = <<>>
    /\ hookOwner = <<>>
    /\ lastHit = [addr |-> 0, data |-> 0, called |-> "none", owner |-> "none"]
    /\ lastHook = [op |-> "none", addr |-> 0, ret |-> 0, repeat |-> FALSE]

\* ------------------------------------------------------ memory-read hooks
SKIP_EXEC_HOOK == U64Max

\* The value for which the native layer emits no execution call: (uint64_t) -1.
NativeSkip == U64Max

\* The instrumentation sites of the guest: a program counter and the width
\* of the read there.
Sites == {[pc |-> 1, size |-> 4], [pc |-> 2, size |-> 4], [pc |-> 3, size |-> 8]}

\* The generation callbacks a caller may pass.
Gens == {"gen_pc", "gen_skip", "gen_skip_first"}
GenApply(gen, pc, size, data) ==
    CASE gen = "gen_pc" -> pc
      [] gen = "gen_skip" -> SKIP_EXEC_HOOK
      [] gen = "gen_skip_first" -> IF pc = 1 THEN SKIP_EXEC_HOOK ELSE data

\* Emulator::add_read_hooks: the arguments as libafl_add_read_hook receives them.
add_read_hooks_Swapped(gen, exec1, exec2, exec4, exec8, exec_n, data) ==
    [gen |-> gen, exec1 |-> exec1, exec2 |-> exec2, exec4 |-> exec8,
     exec8 |-> exec4, exec_n |-> exec_n, data |-> data]
add_read_hooks(gen, exec1, exec2, exec4, exec8, exec_n, data) ==
    [gen |-> gen, exec1 |-> exec1, exec2 |-> exec2, exec4 |-> exec4,
     exec8 |-> exec8, exec_n |-> exec_n, data |-> data]

\* The caller registers a generation callback and five execution callbacks
\* (named after the parameter each is passed as).
AddReadHooks ==
    /\ handles >= 1
    /\ Len(readHooks) < MaxReadHooks
    /\ \E gen \in Gens, data \in {0, 1} :
         /\ userReadHooks' = Append(userReadHooks, [gen |-> gen, data |-> data])
         /\ readHooks' = Append(readHooks,
                add_read_hooks(gen, "exec1", "exec2", "exec4", "exec8", "exec_n", data))
    /\ UNCHANGED <<translated, instr, lastRead>>
    /\ UNCHANGED <<emuVars, mapsVars, gdbVars, memVars, hookVars, eventVars, ramVars, raceVars, combineVars>>

\* The native layer translates a site: it asks each registered hook's
\* generation callback for an id and emits an execution call unless the id
\* is the skip value.
NativeGen(hooks, site) ==
    {[site |-> site, hook |-> k,
      id |-> GenApply(hooks[k].gen, site.pc, site.size, hooks[k].data)] :
        k \in {j \in 1 .. Len(hooks) :
                 GenApply(hooks[j].gen, site.pc, site.size, hooks[j].data) # NativeSkip}}

TranslateSite ==
    /\ \E site \in Sites :
         /\ translated[site] = -1
         /\ translated' = [translated EXCEPT ![site] = Len(readHooks)]
         /\ instr' = instr \cup NativeGen(readHooks, site)
    /\ UNCHANGED <<userReadHooks, readHooks, lastRead>>
    /\ UNCHANGED <<emuVars, mapsVars, gdbVars, memVars, hookVars, eventVars, ramVars, raceVars, combineVars>>

\* flush_jit(): libafl_flush_jit drops every translation, so a site the
\* guest reaches again is translated again, with the hooks registered by then.
FlushJit ==
    /\ handles >= 1
    /\ translated' = [s \in Sites |-> -1]
    /\ instr' = {}
    /\ UNCHANGED <<userReadHooks, readHooks, lastRead>>
    /\ UNCHANGED <<emuVars, mapsVars, gdbVars, memVars, hookVars, eventVars, ramVars, raceVars, combineVars>>

\* The execution callback the native layer calls for a read of `size` bytes.
NativeExec(hook, size) ==
    CASE size = 1 -> hook.exec1
      [] size = 2 -> hook.exec2
      [] size = 4 -> hook.exec4
      [] size = 8 -> hook.exec8
      [] OTHER -> hook.exec_n

\* The guest executes the read at a translated site: every execution call
\* emitted there runs, with the id its generation callback returned.
GuestRead ==
    /\ \E site \in Sites :
         /\ translated[site] # -1
         /\ lastRead' = [site |-> site,
                         hooksAt |-> translated[site],
                         calls |-> {[hook |-> i.hook,
                                     fn |-> NativeExec(readHooks[i.hook], site.size),
                                     id |-> i.id,
                                     data |-> readHooks[i.hook].data] :
                                    i \in {j \in instr : j.site = site}}]
    /\ UNCHANGED <<userReadHooks, readHooks, translated, instr>>
    /\ UNCHANGED <<emuVars, mapsVars, gdbVars, memVars, hookVars, eventVars, ramVars, raceVars, combineVars>>

InitRead ==
    /\ userReadHooks = <<>>
    /\ readHooks = <<>>
    /\ translated = [s \in Sites |-> -1]
    /\ instr = {}
    /\ lastRead = [site |-> [pc |-> 0, size |-> 0], hooksAt |-> 0, calls |-> {}]

\* ------------------------------------------------- write_mem / read_mem
HostAddrs == 0 .. (UsizeMod - 1)
\* The byte values used: 0, which a fresh mapping holds, and two others.
Bytes == {0, 1, 2}

\* The sizes of the mappings and buffers used.
Sizes == {1, 2}

\* The guest addresses of a mapping.
Cells(r) == r.start .. (r.start + r.size - 1)

\* The buffers a caller may hand to write_mem.
Bufs(len) == [1 .. len -> Bytes \ {0}]

\* copy_nonoverlapping(src, dst, count) with dst in host memory, for a range
\* that lies in the address space.
CopyIn(mem, dst, buf) ==
    [h \in HostAddrs |->
        IF h - dst \in 0 .. (Len(buf) - 1) THEN buf[h - dst + 1] ELSE mem[h]]

\* copy_nonoverlapping(src, dst, count) with src in host memory, for a range
\* that lies in the address space.
CopyOut(mem, src, len) == [i \in 1 .. len |-> mem[src + i - 1]]

\* write_mem(addr, buf): how the call may end, with the host memory it
\* leaves.  When g2h panics nothing is written.  Two cases are undefined
\* behaviour.  At host address 0 copy_nonoverlapping gets a null destination:
\* a build with debug assertions, whatever its overflow checks, aborts in the
\* precondition check, other builds copy.  A range that runs past the top of
\* the address space gets the process killed in the copy, with any part of
\* the range below the top written.
write_mem(mem, checks, base, addr, buf) ==
    LET host_addr == g2h(checks, base, addr)
    IN IF host_addr = -1 THEN {[ret |-> "panic", mem |-> mem]}
       ELSE IF host_addr = 0
       THEN {[ret |-> "ok", mem |-> CopyIn(mem, host_addr, buf)],
             [ret |-> "aborted", mem |-> mem]}
       ELSE IF host_addr + Len(buf) > UsizeMod
       THEN {[ret |-> "killed", mem |-> CopyIn(mem, host_addr, SubSeq(buf, 1, k))] :
                k \in 0 .. (UsizeMod - host_addr)}
       ELSE {[ret |-> "ok", mem |-> CopyIn(mem, host_addr, buf)]}

\* read_mem(addr, buf): how the call may end, with the bytes it copies into
\* buf.  When g2h panics nothing is copied.  The same two cases are undefined
\* behaviour: a null source at host address 0, where a build with debug
\* assertions aborts and other builds copy, and a range that runs past the
\* top of the address space, where the process is killed in the copy.
read_mem(mem, checks, base, addr, len) ==
    LET host_addr == g2h(checks, base, addr)
    IN IF host_addr = -1 THEN {[ret |-> "panic", bytes |-> <<>>]}
       ELSE IF host_addr = 0
       THEN {[ret |-> "ok", bytes |-> CopyOut(mem, host_addr, len)],
             [ret |-> "aborted", bytes |-> <<>>]}
       ELSE IF host_addr + len > UsizeMod
       THEN {[ret |-> "killed", bytes |-> CopyOut(mem, host_addr, k)] :
                k \in 0 .. (UsizeMod - host_addr)}
       ELSE {[ret |-> "ok", bytes |-> CopyOut(mem, host_addr, len)]}

\* The places target_mmap may put a new mapping of the given size: free guest
\* addresses that lie in the host's address space.
FreeStart(start, size) ==
    LET cells == start .. (start + size - 1)
    IN /\ \A a \in cells : ValidGuestAddr(wideGuest, guest_base, a)
       /\ \A r \in regions : Cells(r) \cap cells = {}

NoWrite == [addr |-> 0, bytes |-> <<>>, live |-> FALSE, ret |-> "none"]
NoRead == [addr |-> 0, bytes |-> <<>>, gen |-> 0, written |-> <<>>, ret |-> "none"]

\* The process runs on: no write_mem or read_mem has ended it.
Alive == lastWrite.ret \in {"none", "ok"} /\ lastReadMem.ret \in {"none", "ok"}

\* The guest addresses a write covers.
WriteCells(w) == w.addr .. (w.addr + Len(w.bytes) - 1)

\* map_private(addr, size, perms) with the native layer's side of it: a
\* successful target_mmap adds a zero-filled mapping of that size, and the
\* caller gets what map_private makes of target_mmap's return value.
RamMapPrivate ==
    /\ handles >= 1
    /\ Alive
    /\ mapCount < MaxMaps
    /\ \E size \in Sizes :
         LET addr == 0
             flags == BitOr(MAP_PRIVATE, MAP_ANONYMOUS)
         IN \E res \in target_mmap(wideGuest, addr, flags) \ {MmapFailed} :
              /\ FreeStart(res, size)
              /\ regions' = regions \cup
                     {[start |-> res, size |-> size, gen |-> mapCount + 1,
                       got |-> MapResult(wideGuest, addr, res).val]}
              /\ mapCount' = mapCount + 1
              /\ hostMem' = [h \in HostAddrs |->
                     IF h - guest_base \in res .. (res + size - 1) THEN 0
                     ELSE hostMem[h]]
    /\ lastReadMem' = NoRead
    /\ UNCHANGED <<unmappedSizes, lastWrite>>
    /\ UNCHANGED <<emuVars, mapsVars, gdbVars, memVars, hookVars, readVars, eventVars, raceVars, combineVars>>

\* unmap(addr, size) of a mapping the caller got, with the native layer's side
\* of it: a successful target_munmap takes the mapping away.
RamUnmap ==
    /\ handles >= 1
    /\ Alive
    /\ \E r \in regions, res \in NativeStatus :
         /\ UnmapResult(r.got, res).ok
         /\ regions' = regions \ {r}
         /\ unmappedSizes' = unmappedSizes \cup {r.size}
         /\ hostMem' = [h \in HostAddrs |->
                IF h - guest_base \in Cells(r) THEN 0 ELSE hostMem[h]]
         /\ lastWrite' = IF lastWrite.live /\ WriteCells(lastWrite) \cap Cells(r) # {}
                         THEN NoWrite ELSE lastWrite
         /\ lastReadMem' = NoRead
    /\ UNCHANGED mapCount
    /\ UNCHANGED <<emuVars, mapsVars, gdbVars, memVars, hookVars, readVars, eventVars, raceVars, combineVars>>

\* What stays of a mapping when target_mmap puts a MAP_FIXED mapping over
\* cells: the part below and the part above, each a mapping of its own.
Remainder(r, cells) ==
    LET below == {c \in Cells(r) : \A d \in cells : c < d}
        above == {c \in Cells(r) : \A d \in cells : c > d}
        Part(cs) == [start |-> CHOOSE c \in cs : \A d \in cs : c <= d,
                     size |-> Cardinality(cs), gen |-> r.gen,
                     got |-> CHOOSE c \in cs : \A d \in cs : c <= d]
    IN {Part(cs) : cs \in {below, above} \ {{}}}

\* The addresses a caller hands to map_fixed: one inside a mapping it holds,
\* or address 0.
FixedAddrs == {0} \cup UNION {Cells(r) : r \in regions}

\* map_fixed(addr, size, perms) with the native layer's side of it: a
\* successful target_mmap puts a zero-filled mapping at addr, in place of
\* whatever was mapped in that range.  At address 0 target_mmap returns 0,
\* which mmap reads as failure: the range is mapped and the caller, told Err,
\* knows it by the address it asked for.
RamMapFixed ==
    /\ handles >= 1
    /\ Alive
    /\ mapCount < MaxMaps
    /\ \E addr \in FixedAddrs, size \in Sizes :
         LET flags == BitOr(BitOr(MAP_FIXED, MAP_PRIVATE), MAP_ANONYMOUS)
         IN \E res \in target_mmap(wideGuest, addr, flags) \ {MmapFailed} :
              LET cells == res .. (res + size - 1)
              IN /\ \A a \in cells : ValidGuestAddr(wideGuest, guest_base, a)
                 /\ regions' =
                       UNION {IF Cells(r) \cap cells = {} THEN {r} ELSE Remainder(r, cells) :
                                 r \in regions}
                       \cup {[start |-> res, size |-> size, gen |-> mapCount + 1,
                               got |-> IF MapResult(wideGuest, addr, res).ok
                                       THEN MapResult(wideGuest, addr, res).val
                                       ELSE addr]}
                 /\ mapCount' = mapCount + 1
                 /\ hostMem' = [h \in HostAddrs |->
                        IF h - guest_base \in cells THEN 0 ELSE hostMem[h]]
                 /\ lastWrite' = IF lastWrite.live /\ WriteCells(lastWrite) \cap cells # {}
                                 THEN NoWrite ELSE lastWrite
    /\ lastReadMem' = NoRead
    /\ UNCHANGED unmappedSizes
    /\ UNCHANGED <<emuVars, mapsVars, gdbVars, memVars, hookVars, readVars, eventVars, raceVars, combineVars>>

\* run(): the guest executes, and may store a byte into memory mapped for it.
RamGuestWrite ==
    /\ handles >= 1
    /\ Alive
    /\ \E r \in regions, c \in GuestAddrs(wideGuest), b \in Bytes \ {0} :
         /\ c \in Cells(r)
         /\ hostMem' = [hostMem EXCEPT ![guest_base + c] = b]
         /\ lastWrite' = IF lastWrite.live /\ c \in WriteCells(lastWrite)
                         THEN NoWrite ELSE lastWrite
    /\ lastReadMem' = NoRead
    /\ UNCHANGED <<regions, unmappedSizes, mapCount>>
    /\ UNCHANGED <<emuVars, mapsVars, gdbVars, memVars, hookVars, readVars, eventVars, raceVars, combineVars>>

\* write_mem(addr, buf) on a range of a mapping made by map_private or
\* map_fixed: the function's safety contract asks for valid guest addresses.
WriteMem ==
    /\ handles >= 1
    /\ Alive
    /\ \E r \in regions, off \in {0} \cup Sizes, len \in Sizes :
         LET addr == r.got + off
         IN /\ addr .. (addr + len - 1) \subseteq Cells(r)
            /\ \E buf \in Bufs(len) :
                 \E out \in write_mem(hostMem, overflowChecks, guest_base, addr, buf) :
                   /\ hostMem' = out.mem
                   /\ lastWrite' = [addr |-> addr, bytes |-> buf,
                                    live |-> out.ret = "ok", ret |-> out.ret]
    /\ lastReadMem' = NoRead
    /\ UNCHANGED <<regions, unmappedSizes, mapCount>>
    /\ UNCHANGED <<emuVars, mapsVars, gdbVars, memVars, hookVars, readVars, eventVars, raceVars, combineVars>>

\* read_mem(addr, buf) on a range of a mapping the caller got.  The record
\* keeps what the most recent write_mem wrote when that was a write of this
\* range.
ReadMem ==
    /\ handles >= 1
    /\ Alive
    /\ \E r \in regions, off \in {0} \cup Sizes, len \in Sizes :
         LET addr == r.got + off
         IN /\ addr .. (addr + len - 1) \subseteq Cells(r)
            /\ \E out \in read_mem(hostMem, overflowChecks, guest_base, addr, len) :
               lastReadMem' =
                 [addr |-> addr,
                  bytes |-> out.bytes,
                  gen |-> r.gen,
                  written |-> IF lastWrite.live /\ lastWrite.addr = addr
                                 /\ Len(lastWrite.bytes) = len
                              THEN lastWrite.bytes ELSE <<>>,
                  ret |-> out.ret]
    /\ UNCHANGED <<hostMem, regions, unmappedSizes, mapCount, lastWrite>>
    /\ UNCHANGED <<emuVars, mapsVars, gdbVars, memVars, hookVars, readVars, eventVars, raceVars, combineVars>>

InitRam ==
    /\ hostMem = [h \in HostAddrs |-> 0]
    /\ regions = {}
    /\ unmappedSizes = {}
    /\ mapCount = 0
    /\ lastWrite = NoWrite
    /\ lastReadMem = NoRead

\* ------------------------------------- Emulator::new called from threads
\* Emulator::new is a safe function and EMULATOR_IS_INITIALIZED a plain
\* static mut, so threads may be inside new at once.  A call is three steps
\* on the shared state: the read of the flag in the first assertion (taken
\* with the assertion on the thread's own args), qemu_user_init, and the
\* write of the flag.
Threads == 1 .. MaxThreads

\* The assertions at the head of new.
NewEnter(t) ==
    /\ newPc[t] \in {"idle", "returned", "panicked"}
    /\ newCalls < MaxNewCalls
    /\ \E nargs \in 0 .. MaxArgs :
         /\ newArgs' = [newArgs EXCEPT ![t] = nargs]
         /\ newPc' = [newPc EXCEPT ![t] =
                IF NewPanics(EMULATOR_IS_INITIALIZED, nargs) THEN "panicked" ELSE "asserted"]
    /\ newCalls' = newCalls + 1
    /\ UNCHANGED <<wideGuest, overflowChecks, EMULATOR_IS_INITIALIZED, guest_base,
                   initCalls, handles, lastCall>>
    /\ UNCHANGED <<mapsVars, gdbVars, memVars, hookVars, readVars, eventVars, ramVars, combineVars>>

\* qemu_user_init(argc, argv, envp)
NewNativeInit(t) ==
    /\ newPc[t] = "asserted"
    /\ \E b \in Bases : guest_base' = b
    /\ initCalls' = initCalls + 1
    /\ newPc' = [newPc EXCEPT ![t] = "inited"]
    /\ UNCHANGED newArgs
    /\ UNCHANGED <<wideGuest, overflowChecks, EMULATOR_IS_INITIALIZED, handles,
                   newCalls, lastCall>>
    /\ UNCHANGED <<mapsVars, gdbVars, memVars, hookVars, readVars, eventVars, ramVars, combineVars>>

\* EMULATOR_IS_INITIALIZED = true; Emulator { _private: () }
NewReturn(t) ==
    /\ newPc[t] = "inited"
    /\ EMULATOR_IS_INITIALIZED' = TRUE
    /\ handles' = handles + 1
    /\ newPc' = [newPc EXCEPT ![t] = "returned"]
    /\ UNCHANGED newArgs
    /\ UNCHANGED <<wideGuest, overflowChecks, guest_base, initCalls, newCalls, lastCall>>
    /\ UNCHANGED <<mapsVars, gdbVars, memVars, hookVars, readVars, eventVars, ramVars, combineVars>>

InitRace ==
    /\ newPc = [t \in Threads |-> "idle"]
    /\ newArgs = [t \in Threads |-> 0]

\* ------------------------------------------------ combine_and_or_generate
\* TestcaseSrc: Rand, or Files(p) with p a directory holding some files;
\* FilesUnreadable(p) is Files(p) where p also holds an entry that is no
\* directory and opens but cannot be read (a symbolic link to a directory).
Rand == [kind |-> "Rand", files |-> 0, unreadable |-> FALSE]
Files(n) == [kind |-> "Files", files |-> n, unreadable |-> FALSE]
FilesUnreadable(n) == [kind |-> "Files", files |-> n, unreadable |-> TRUE]
TestcaseSrcs ==
    {Rand} \cup {Files(n) : n \in 0 .. MaxFiles}
           \cup {FilesUnreadable(n) : n \in 0 .. MaxFiles}

\* The states the thread's random generator may be in at the call.
RandSeeds == {0, 1}

\* generate_field(): the k-th block of random bytes drawn after the call began.
generate_field(seed, k) == [src |-> "rand", dir |-> 0, n |-> (seed + k) % 2]

\* get_contents(p) for the directory of the source at position i: one
\* BytesInput per file found, with that file's content; a panic
\* ("all inputs should be readable") when read_to_end fails on an entry.
get_contents(sources, i) ==
    IF sources[i].unreadable THEN [panics |-> TRUE, v |-> <<>>]
    ELSE [panics |-> FALSE,
          v |-> [k \in 1 .. sources[i].files |-> [src |-> "file", dir |-> i, n |-> k]]]

\* The filter_map over sources: what get_contents gives for each Files
\* source, in order.
RECURSIVE InsFromFiles(_, _)
InsFromFiles(sources, i) ==
    IF i > Len(sources) THEN <<>>
    ELSE (IF sources[i].kind = "Files" THEN <<get_contents(sources, i)>> ELSE <<>>)
         \o InsFromFiles(sources, i + 1)

\* matches!(TestcaseSrc::Files, _ts): the macro's first argument is the
\* expression and its second the pattern; the pattern _ts is a binding, which
\* every value matches.
MatchesFiles(ts) == TRUE

\* sources.iter().position(..): the first position whose element satisfies
\* the closure (positions counted from 1 here), 0 for None.
Position(sources) ==
    IF \E i \in 1 .. Len(sources) : MatchesFiles(sources[i])
    THEN CHOOSE i \in 1 .. Len(sources) :
            /\ MatchesFiles(sources[i])
            /\ \A j \in 1 .. (i - 1) : ~MatchesFiles(sources[j])
    ELSE 0

\* combine_and_or_generate(sources, numtests): a panic, or the Vec<MultiInput>
\* returned, each MultiInput given by its fields.
combine_and_or_generate(sources, numtests, seed) ==
    LET ins_from_files == InsFromFiles(sources, 1)
        n == Len(sources)
    IN IF \E k \in 1 .. Len(ins_from_files) : ins_from_files[k].panics
       THEN [panics |-> TRUE, v |-> <<>>]
       ELSE IF Len(ins_from_files) > 1 THEN [panics |-> TRUE, v |-> <<>>]
       ELSE IF Len(ins_from_files) = 1
       THEN LET finputs == ins_from_files[1].v
                index == Position(sources)
            IN IF index = 0 THEN [panics |-> TRUE, v |-> <<>>]
               ELSE [panics |-> FALSE,
                     v |-> [t \in 1 .. Len(finputs) |->
                              [f \in 1 .. n |->
                                 IF f = index THEN finputs[t]
                                 ELSE generate_field(seed, (t - 1) * n + f)]]]
       ELSE [panics |-> FALSE,
             v |-> [t \in 1 .. numtests |->
                      [f \in 1 .. n |-> generate_field(seed, (t - 1) * n + f)]]]

NotCalled == [called |-> FALSE, panics |-> FALSE, v |-> <<>>]

\* The bundler calls combine_and_or_generate once.
CombineAndOrGenerate ==
    /\ ~cgOut.called
    /\ LET r == combine_and_or_generate(cgSources, cgNumtests, cgSeed)
       IN cgOut' = [called |-> TRUE, panics |-> r.panics, v |-> r.v]
    /\ UNCHANGED <<cgSources, cgNumtests, cgSeed>>
    /\ UNCHANGED <<emuVars, mapsVars, gdbVars, memVars, hookVars, readVars, eventVars,
                   ramVars, raceVars>>

\* Outside the bundler nothing is passed to combine_and_or_generate.
InitCombine ==
    /\ cgSources = <<>>
    /\ cgNumtests = 0
    /\ cgSeed = 0
    /\ cgOut = NotCalled

\* The bundler before its call, with any arguments.
InitCombineArgs ==
    /\ cgSources \in UNION {[1 .. n -> TestcaseSrcs] : n \in 0 .. MaxSources}
    /\ cgNumtests \in 0 .. MaxTests
    /\ cgSeed \in RandSeeds
    /\ cgOut = NotCalled

\* ---------------------------------------------------- process-wide event hooks
\* The callbacks a harness may install; the three slots have different
\* function types, so each slot has its own.
ThreadHooks == {"on_thread_a", "on_thread_b"}
PreSyscallHooks == {"pre_a", "py_syscall_hook_wrapper"}
PostSyscallHooks == {"post_a", "post_b"}

\* What the native layer links into each slot before any call.
NativeDefault == "default"

\* The three statics as one value.
EventStatics ==
    [on_thread |-> libafl_on_thread_hook,
     pre_syscall |-> libafl_pre_syscall_hook,
     post_syscall |-> libafl_post_syscall_hook]

set_on_thread_hook(s, hook) == [s EXCEPT !.on_thread = hook]

set_pre_syscall_hook(s, hook) == [s EXCEPT !.pre_syscall = hook]

set_post_syscall_hook_WritesPre(s, hook) == [s EXCEPT !.pre_syscall = hook]
set_post_syscall_hook(s, hook) == [s EXCEPT !.post_syscall = hook]

\* Stores the statics and logs the call.
EventStore(s, op, hook) ==
    /\ libafl_on_thread_hook' = s.on_thread
    /\ libafl_pre_syscall_hook' = s.pre_syscall
    /\ libafl_post_syscall_hook' = s.post_syscall
    /\ eventLog' = Append(eventLog, [op |-> op, hook |-> hook])

SetOnThreadHook ==
    /\ handles >= 1
    /\ Len(eventLog) < MaxEventCalls
    /\ \E hook \in ThreadHooks :
         EventStore(set_on_thread_hook(EventStatics, hook), "set_on_thread_hook", hook)
    /\ UNCHANGED PY_SYSCALL_HOOK
    /\ UNCHANGED <<emuVars, mapsVars, gdbVars, memVars, hookVars, readVars, ramVars, raceVars, combineVars>>

SetPreSyscallHook ==
    /\ handles >= 1
    /\ Len(eventLog) < MaxEventCalls
    /\ \E hook \in PreSyscallHooks \ {"py_syscall_hook_wrapper"} :
         EventStore(set_pre_syscall_hook(EventStatics, hook), "set_pre_syscall_hook", hook)
    /\ UNCHANGED PY_SYSCALL_HOOK
    /\ UNCHANGED <<emuVars, mapsVars, gdbVars, memVars, hookVars, readVars, ramVars, raceVars, combineVars>>

SetPostSyscallHook ==
    /\ handles >= 1
    /\ Len(eventLog) < MaxEventCalls
    /\ \E hook \in PostSyscallHooks :
         EventStore(set_post_syscall_hook(EventStatics, hook), "set_post_syscall_hook", hook)
    /\ UNCHANGED PY_SYSCALL_HOOK
    /\ UNCHANGED <<emuVars, mapsVars, gdbVars, memVars, hookVars, readVars, ramVars, raceVars, combineVars>>

\* pybind's set_syscall_hook: keeps the Python object and installs the wrapper
\* through set_pre_syscall_hook.
PySetSyscallHook ==
    /\ handles >= 1
    /\ Len(eventLog) < MaxEventCalls
    /\ \E obj \in PyObjects :
         /\ PY_SYSCALL_HOOK' = obj
         /\ EventStore(set_pre_syscall_hook(EventStatics, "py_syscall_hook_wrapper"),
                       "set_pre_syscall_hook", "py_syscall_hook_wrapper")
    /\ UNCHANGED <<emuVars, mapsVars, gdbVars, memVars, hookVars, readVars, ramVars, raceVars, combineVars>>

InitEvent ==
    /\ libafl_on_thread_hook = NativeDefault
    /\ libafl_pre_syscall_hook = NativeDefault
    /\ libafl_post_syscall_hook = NativeDefault
    /\ PY_SYSCALL_HOOK = "None"
    /\ eventLog = <<>>


\* ------------------------------------------------------- specifications
InitBuild ==
    /\ wideGuest \in BOOLEAN
    /\ overflowChecks \in BOOLEAN

\* The process before any Emulator exists.
InitEmu ==
    /\ InitBuild
    /\ EMULATOR_IS_INITIALIZED = FALSE
    /\ guest_base = 0
    /\ initCalls = 0
    /\ handles = 0
    /\ newCalls = 0
    /\ lastCall = NoCall

\* The process once Emulator::new has returned its handle.
InitLive ==
    /\ InitBuild
    /\ EMULATOR_IS_INITIALIZED = TRUE
    /\ guest_base \in Bases
    /\ initCalls = 1
    /\ handles = 1
    /\ newCalls = 1
    /\ lastCall = Call("new", 1, 1, 0, Ok(Unit))

InitRest == InitMaps /\ InitGdb /\ InitMem /\ InitHooks /\ InitRead /\ InitEvent /\ InitRam /\ InitRace

Init == InitEmu /\ InitRest /\ InitCombine

\* The Emulator's lifecycle, translation and register access.
Next == EmulatorNew \/ Translate \/ WriteReg \/ ReadReg

Spec == Init /\ [][Next]_vars

InitLiveRest == InitLive /\ InitRest /\ InitCombine

\* A live Emulator of a build without overflow checks, its guest at base 0.
InitLiveAtZero == InitLiveRest /\ ~overflowChecks /\ guest_base = 0

\* The memory-map iterators of a live Emulator.
NextMaps == Mappings \/ MapsNext \/ MapsDrop

SpecMaps == InitLiveAtZero /\ [][NextMaps]_vars

\* The debugger-command table, from the start of the process.
NextGdb == EmulatorNew \/ AddGdbCmd \/ GdbInvoke

SpecGdb == Init /\ [][NextGdb]_vars

\* Guest mappings and permission values.
NextMem == MapPrivate \/ MapFixed \/ Mprotect \/ Unmap

SpecMem == InitLiveRest /\ [][NextMem]_vars

\* Permission values and their predicates.
NextPerms == PermsQuery

SpecPerms == InitLiveRest /\ [][NextPerms]_vars

\* The address-keyed code hooks, through the scripting binding.
NextHooks == PySetHook \/ PyRemoveHook \/ PyHookHit

SpecHooks == InitLiveAtZero /\ [][NextHooks]_vars

\* The memory-read hooks.
NextRead == AddReadHooks \/ TranslateSite \/ GuestRead \/ FlushJit

SpecRead == InitLiveAtZero /\ [][NextRead]_vars

\* The process-wide event hooks.
NextEvent == SetOnThreadHook \/ SetPreSyscallHook \/ SetPostSyscallHook \/ PySetSyscallHook

SpecEvent == InitLiveAtZero /\ [][NextEvent]_vars

\* Guest memory of a live Emulator of a build with overflow checks, its guest
\* at base 0 or at base 1, where host and guest addresses differ.
InitLiveChecked == InitLiveRest /\ overflowChecks /\ guest_base \in {0, 1}

NextRam == RamMapPrivate \/ RamMapFixed \/ RamUnmap \/ RamGuestWrite \/ WriteMem \/ ReadMem

SpecRam == InitLiveChecked /\ [][NextRam]_vars

\* Emulator::new called from several threads, from the start of the process.
NextRace == \E t \in Threads : NewEnter(t) \/ NewNativeInit(t) \/ NewReturn(t)

SpecRace == Init /\ [][NextRace]_vars

\* The splitter-bundler, which makes no Emulator, before its call of
\* combine_and_or_generate.
InitBundler == InitEmu /\ InitRest /\ InitCombineArgs /\ ~wideGuest /\ ~overflowChecks

NextCombine == CombineAndOrGenerate

SpecCombine == InitBundler /\ [][NextCombine]_vars

\* ================================================================ claims

\* C1: once a call of Emulator::new has returned a handle, every later call
\* of Emulator::new panics: it returns no handle and does not call
\* qemu_user_init again, whatever its args.
C1_SecondNewAborts ==
    [][(handles >= 1 /\ newCalls' # newCalls) =>
         /\ lastCall'.op = "new"
         /\ ~lastCall'.res.ok
         /\ handles' = handles
         /\ initCalls' = initCalls]_vars

\* A second call with non-empty args has panicked after a first returned a handle.
C1_Witness ==
    /\ handles = 1
    /\ initCalls = 1
    /\ newCalls >= 2
    /\ lastCall.op = "new"
    /\ lastCall.arg >= 1
    /\ ~lastCall.res.ok

\* C2: for every valid guest address a, g2h(a) is base + a and h2g(g2h(a))
\* is a again.
C2_RoundTrip ==
    (lastCall.op = "g2h_h2g" /\ ValidGuestAddr(wideGuest, guest_base, lastCall.arg)) =>
        /\ lastCall.native = guest_base + lastCall.arg
        /\ lastCall.res = Ok(lastCall.arg)

\* A non-zero valid address was translated and came back, at a non-zero base.
C2_Witness ==
    /\ lastCall.op = "g2h_h2g"
    /\ ValidGuestAddr(wideGuest, guest_base, lastCall.arg)
    /\ lastCall.arg > 0
    /\ guest_base > 0
    /\ lastCall.res.ok

\* C3: whatever the number of next() calls made on it, a GuestMaps hands the
\* head of the snapshot taken at its creation to free_self_maps exactly once
\* when it is dropped, and never before.
C3_ReleasedOnce ==
    \A i \in 1 .. MaxIters :
        /\ guestMaps[i].st \in {"unborn", "live"} => freeLog[i] = <<>>
        /\ guestMaps[i].st = "dropped" =>
              freeLog[i] = <<read_self_maps(i, guestMaps[i].len)>>

\* One iterator was dropped before any next(), another after calls past its
\* exhaustion.
C3_Witness ==
    /\ guestMaps[1].st = "dropped"
    /\ guestMaps[1].nexts = 0
    /\ guestMaps[1].len >= 2
    /\ guestMaps[2].st = "dropped"
    /\ guestMaps[2].len >= 2
    /\ guestMaps[2].nexts > guestMaps[2].len
    /\ Len(freeLog[1]) = 1
    /\ Len(freeLog[2]) = 1

\* C4: the back-pointer the native layer holds for each registered command
\* designates that command's own entry of GDB_COMMANDS, so an invocation of
\* the command runs the closure registered with it.
C4_BackPointersResolve ==
    /\ \A k \in 1 .. Len(nativeGdbCmds) :
          Deref(nativeGdbCmds[k].data) = {nativeGdbCmds[k].closure}
    /\ lastGdb.cmd # 0 => lastGdb.ran = nativeGdbCmds[lastGdb.cmd].closure

\* C5: map_private and map_fixed return an error naming the requested
\* address exactly when target_mmap returned its failure value, and the
\* address target_mmap returned otherwise.
C5_MapFailsOnSentinel ==
    lastMem.op \in {"map_private", "map_fixed"} =>
        /\ ~lastMem.res.ok <=> lastMem.native = MmapFailed
        /\ ~lastMem.res.ok => lastMem.res = Err("Failed to map", lastMem.addr)
        /\ lastMem.res.ok => lastMem.res = Ok(AsGuestAddr(wideGuest, lastMem.native))

\* C6: a remove_hook(X) that directly follows a remove_hook(X) changes
\* neither the native hook table nor PY_GENERIC_HOOKS, and removes nothing.
C6_SecondRemoveNoOp ==
    [][(lastHook'.op = "remove_hook" /\ lastHook'.repeat) =>
         /\ nativeHooks' = nativeHooks
         /\ PY_GENERIC_HOOKS' = PY_GENERIC_HOOKS
         /\ lastHook'.ret = 0]_vars

\* The same address was removed twice in a row while other hooks stay installed.
C6_Witness ==
    /\ lastHook.op = "remove_hook"
    /\ lastHook.repeat
    /\ Len(nativeHooks) >= 2
    /\ Len(PY_GENERIC_HOOKS) >= 2

\* The entries of a table that are not at address x, in their order.
RECURSIVE NotAt(_, _)
NotAt(tbl, x) ==
    IF tbl = <<>> THEN <<>>
    ELSE (IF Head(tbl).addr = x THEN <<>> ELSE <<Head(tbl)>>) \o NotAt(Tail(tbl), x)

\* C7: remove_hook(X) leaves no hook at X, in the native table and in the
\* binding's table, however many were set there, and leaves the hooks at
\* every other address as they were.
C7_RemovesAllAtAddrOnly ==
    [][lastHook'.op = "remove_hook" =>
         /\ \A i \in 1 .. Len(nativeHooks') : nativeHooks'[i].addr # lastHook'.addr
         /\ \A i \in 1 .. Len(PY_GENERIC_HOOKS') : PY_GENERIC_HOOKS'[i].addr # lastHook'.addr
         /\ nativeHooks' = NotAt(nativeHooks, lastHook'.addr)
         /\ PY_GENERIC_HOOKS' = NotAt(PY_GENERIC_HOOKS, lastHook'.addr)]_vars

\* A removal took several hooks at once and left one at another address.
C7_Witness ==
    /\ lastHook.op = "remove_hook"
    /\ lastHook.ret >= 2
    /\ Len(nativeHooks) >= 1
    /\ Len(PY_GENERIC_HOOKS) >= 1

\* C8: at a 4-byte read of a site, a read hook whose generation callback
\* returned an id other than SKIP_EXEC_HOOK for the site, when the translation
\* the read runs was made, has its exec4 callback called with exactly that
\* id, and a hook whose generation callback returned SKIP_EXEC_HOOK there has
\* no callback called; so it is for the translations made after a flush_jit.
C8_ReadHookIds ==
    (lastRead.site \in Sites /\ lastRead.site.size = 4) =>
        \A k \in 1 .. Len(userReadHooks) :
            LET s == lastRead.site
                id == GenApply(userReadHooks[k].gen, s.pc, s.size, userReadHooks[k].data)
                mine == {c \in lastRead.calls : c.hook = k}
            IN /\ id = SKIP_EXEC_HOOK => mine = {}
               /\ (id # SKIP_EXEC_HOOK /\ k <= lastRead.hooksAt) =>
                     mine = {[hook |-> k, fn |-> "exec4", id |-> id,
                              data |-> userReadHooks[k].data]}
               /\ \A c \in mine : c.fn = "exec4" /\ c.id = id

\* A 4-byte read ran one hook's exec4 while a second hook had skipped the site.
C8_Witness ==
    /\ lastRead.site \in Sites
    /\ lastRead.site.size = 4
    /\ Len(userReadHooks) = 2
    /\ lastRead.hooksAt = 2
    /\ \E c \in lastRead.calls : c.fn = "exec4" /\ c.id # SKIP_EXEC_HOOK
    /\ \E k \in 1 .. 2 :
          /\ GenApply(userReadHooks[k].gen, lastRead.site.pc, 4,
                      userReadHooks[k].data) = SKIP_EXEC_HOOK
          /\ \A c \in lastRead.calls : c.hook # k

\* C9: the eight MmapPerms values are the eight combinations of the three
\* protection bits, and is_r, is_w and is_x are true exactly when the value
\* has the read, write and execute bit.
C9_PermsPredicates ==
    /\ {PermsBits(p) : p \in MmapPerms} = 0 .. 7
    /\ lastPerms.perms \in MmapPerms =>
          /\ lastPerms.r = (BitAnd(PermsBits(lastPerms.perms), PROT_READ) # 0)
          /\ lastPerms.w = (BitAnd(PermsBits(lastPerms.perms), PROT_WRITE) # 0)
          /\ lastPerms.x = (BitAnd(PermsBits(lastPerms.perms), PROT_EXEC) # 0)

\* WriteExecute was classified: not readable, writable, executable.
C9_Witness ==
    /\ lastPerms.perms = "WriteExecute"
    /\ ~lastPerms.r
    /\ lastPerms.w
    /\ lastPerms.x

\* C10: read_reg and write_reg return an error naming the register exactly
\* when the native call returned zero; otherwise read_reg returns the value
\* the native call stored and write_reg returns unit.
C10_RegErrorIffZero ==
    lastCall.op \in {"write_reg", "read_reg"} =>
        /\ ~lastCall.res.ok <=> lastCall.native = 0
        /\ ~lastCall.res.ok => lastCall.res.errArg = lastCall.arg
        /\ (lastCall.res.ok /\ lastCall.op = "read_reg") => lastCall.res.val = lastCall.stored
        /\ (lastCall.res.ok /\ lastCall.op = "write_reg") => lastCall.res.val = Unit

\* A read whose native call returned a negative, non-zero value gave back
\* the value stored.
C10_Witness ==
    /\ lastCall.op = "read_reg"
    /\ lastCall.native < 0
    /\ lastCall.arg > 0
    /\ lastCall.stored > 0
    /\ lastCall.res = Ok(lastCall.stored)

\* C11: mprotect and unmap return unit exactly when target_mprotect and
\* target_munmap return zero, and otherwise an error naming the requested
\* address.
C11_ProtectUnmapOkIffZero ==
    lastMem.op \in {"mprotect", "unmap"} =>
        /\ lastMem.res.ok <=> lastMem.native = 0
        /\ lastMem.res.ok => lastMem.res = Ok(Unit)
        /\ ~lastMem.res.ok =>
              /\ lastMem.res.errArg = lastMem.addr
              /\ lastMem.res.err = (IF lastMem.op = "mprotect" THEN "Failed to mprotect"
                                    ELSE "Failed to unmap")

\* An mprotect of a non-zero address failed with a positive native return.
C11_Witness ==
    /\ lastMem.op = "mprotect"
    /\ lastMem.native > 0
    /\ lastMem.addr > 0
    /\ lastMem.res = Err("Failed to mprotect", lastMem.addr)

\* The hook of the most recent call of op in log, dflt when there is none.
RECURSIVE LatestHook(_, _, _)
LatestHook(log, op, dflt) ==
    IF log = <<>> THEN dflt
    ELSE IF log[Len(log)].op = op THEN log[Len(log)].hook
    ELSE LatestHook(SubSeq(log, 1, Len(log) - 1), op, dflt)

\* C12: each of the three event-hook slots holds the hook of the most recent
\* call of its own setter, whatever calls of the other two setters came
\* before or after; a slot never set keeps what the native layer put there.
C12_SlotsHoldLatest ==
    /\ libafl_on_thread_hook = LatestHook(eventLog, "set_on_thread_hook", NativeDefault)
    /\ libafl_pre_syscall_hook = LatestHook(eventLog, "set_pre_syscall_hook", NativeDefault)
    /\ libafl_post_syscall_hook = LatestHook(eventLog, "set_post_syscall_hook", NativeDefault)

\* The pre-syscall hook was set, then the post-syscall hook, then the
\* pre-syscall hook again with another callback.
C12_Witness ==
    /\ Len(eventLog) = 3
    /\ eventLog[1].op = "set_pre_syscall_hook"
    /\ eventLog[2].op = "set_post_syscall_hook"
    /\ eventLog[3].op = "set_pre_syscall_hook"
    /\ eventLog[1].hook # eventLog[3].hook
    /\ libafl_on_thread_hook = NativeDefault

\* C13: the debugger-command table is append-only. A step that touches the
\* table or the native registry is one add_gdb_cmd: it appends exactly one
\* entry to each and keeps every earlier entry in place, so neither length
\* ever decreases and the two stay equal.
C13_TableAppendOnly ==
    [][/\ SubSeq(GDB_COMMANDS', 1, Len(GDB_COMMANDS)) = GDB_COMMANDS
       /\ SubSeq(nativeGdbCmds', 1, Len(nativeGdbCmds)) = nativeGdbCmds
       /\ Len(GDB_COMMANDS') = Len(nativeGdbCmds')
       /\ Len(GDB_COMMANDS') \in {Len(GDB_COMMANDS), Len(GDB_COMMANDS) + 1}
       /\ Len(GDB_COMMANDS') = Len(GDB_COMMANDS) =>
             /\ GDB_COMMANDS' = GDB_COMMANDS
             /\ nativeGdbCmds' = nativeGdbCmds]_vars

\* Three commands are registered and the second has been invoked.
C13_Witness ==
    /\ Len(GDB_COMMANDS) = 3
    /\ Len(nativeGdbCmds) = 3
    /\ lastGdb.cmd = 2

\* C14: a write_mem to a mapped range returns, and a read_mem of a mapped
\* range returns the bytes of the most recent write_mem when that was a write
\* of the same range, in the first mapping and in a mapping made after an
\* earlier one was unmapped.
C14_ReadReturnsWritten ==
    /\ lastWrite.ret \in {"none", "ok"}
    /\ lastReadMem.written # <<>> =>
          /\ lastReadMem.ret = "ok"
          /\ lastReadMem.bytes = lastReadMem.written

\* C15: a GuestMaps is single-pass. After a next() that returned None, every
\* later next() of that iterator returns None, yields nothing more and makes
\* no native call; and libafl_maps_next is never handed a null cursor.
C15_ExhaustedStaysExhausted ==
    [][\A i \in 1 .. MaxIters :
          /\ \A k \in 1 .. Len(guestMaps'[i].nextArgs) : guestMaps'[i].nextArgs[k] # NULL
          /\ (guestMaps[i].last = "None" /\ guestMaps'[i].nexts = guestMaps[i].nexts + 1) =>
                /\ guestMaps'[i].last = "None"
                /\ guestMaps'[i].yielded = guestMaps[i].yielded
                /\ guestMaps'[i].nextArgs = guestMaps[i].nextArgs
                /\ guestMaps'[i].c_iter = NULL]_vars

\* An iterator over three entries answered None twice in a row; another, over
\* an empty snapshot, answered None without any native call.
C15_Witness ==
    /\ guestMaps[1].len = 3
    /\ guestMaps[1].last = "None"
    /\ guestMaps[1].nexts = 5
    /\ Len(guestMaps[1].nextArgs) = 3
    /\ guestMaps[2].len = 0
    /\ guestMaps[2].last = "None"
    /\ guestMaps[2].nextArgs = <<>>

\* C20: a GuestMaps iterated to exhaustion over a snapshot of n entries has
\* yielded each of the n entries exactly once, in order, when it answers None.
C20_YieldsEveryEntry ==
    \A i \in 1 .. MaxIters :
        guestMaps[i].last = "None" =>
            guestMaps[i].yielded = [k \in 1 .. guestMaps[i].len |-> k]

\* C16: Emulator::new with an empty argument list aborts before the native
\* initialization and leaves the flag as it was; and the flag is true only in
\* states where the native initialization has been called.
C16_EmptyArgsAbortEarly ==
    /\ [](EMULATOR_IS_INITIALIZED => initCalls >= 1)
    /\ [][(newCalls' = newCalls + 1 /\ lastCall'.arg = 0) =>
             /\ ~lastCall'.res.ok
             /\ lastCall'.native = 0
             /\ initCalls' = initCalls
             /\ handles' = handles
             /\ EMULATOR_IS_INITIALIZED' = EMULATOR_IS_INITIALIZED]_vars

\* The first call of the process had no arguments and aborted: no native
\* initialization has been made and the flag is still false.
C16_Witness ==
    /\ newCalls = 1
    /\ lastCall.op = "new"
    /\ lastCall.arg = 0
    /\ ~lastCall.res.ok
    /\ initCalls = 0
    /\ ~EMULATOR_IS_INITIALIZED

\* C17: new_empty validates nothing: the trampoline's call of it never
\* aborts, makes no native initialization and leaves the flag as it was. The
\* trampoline fires only for a command registered through an Emulator that a
\* successful new returned, so whenever it has produced a handle the native
\* initialization has been made and the flag is set.
C17_EmptyHandleAfterInit ==
    /\ [](lastGdb.emu # "none" =>
             /\ lastGdb.emu = "handle"
             /\ EMULATOR_IS_INITIALIZED
             /\ initCalls >= 1
             /\ handles >= 1)
    /\ [][lastGdb' # lastGdb =>
             /\ lastGdb'.emu = "handle"
             /\ initCalls' = initCalls
             /\ EMULATOR_IS_INITIALIZED' = EMULATOR_IS_INITIALIZED]_vars

\* The native layer invoked a registered command, the trampoline made its
\* handle, and later calls of new went on aborting.
C17_Witness ==
    /\ lastGdb.emu = "handle"
    /\ lastGdb.ran > 0
    /\ initCalls = 1
    /\ newCalls > 1
    /\ ~lastCall.res.ok

\* C18: the index the native layer holds as the data of each installed hook
\* designates, in PY_GENERIC_HOOKS, the object registered by the set_hook
\* call that installed the hook; a hit calls that object, never another
\* hook's and never an entry past the end of the table.
C18_IndexDesignatesOwnCallback ==
    /\ \A k \in 1 .. Len(nativeHooks) :
          py_generic_hook_wrapper(PY_GENERIC_HOOKS, nativeHooks[k].data) = hookOwner[k]
    /\ lastHit.called = lastHit.owner

\* C19: with threads inside Emulator::new at once, at most one call returns
\* a handle and qemu_user_init is called at most once.
C19_OneHandleOneInit ==
    /\ handles <= 1
    /\ initCalls <= 1

\* The positions of the Files sources of a source list.
FilesAt(sources) == {i \in 1 .. Len(sources) : sources[i].kind = "Files"}

\* C21: combine_and_or_generate aborts for more than one Files source; with
\* none it returns numtests inputs of sources.len() fields each; with exactly
\* one, at whatever position, it returns one input per file found, each of
\* sources.len() fields, whose field at the position of the Files source is
\* that file's content (stated for directories whose entries can all be read).
C21_FileContentAtFilesPosition ==
    cgOut.called =>
        LET at == FilesAt(cgSources)
            n == Len(cgSources)
        IN /\ Cardinality(at) > 1 => cgOut.panics
           /\ Cardinality(at) = 0 =>
                 /\ ~cgOut.panics
                 /\ Len(cgOut.v) = cgNumtests
                 /\ \A t \in 1 .. Len(cgOut.v) : Len(cgOut.v[t]) = n
           /\ (Cardinality(at) = 1 /\ \A j \in at : ~cgSources[j].unreadable) =>
                 LET i == CHOOSE i \in at : TRUE
                 IN /\ ~cgOut.panics
                    /\ Len(cgOut.v) = cgSources[i].files
                    /\ \A t \in 1 .. Len(cgOut.v) :
                          /\ Len(cgOut.v[t]) = n
                          /\ cgOut.v[t][i] = get_contents(cgSources, i).v[t]
====
